---- MODULE Spec2Model ----
(***************************************************************************)
(* mkctx: the file tree (buildTree, finalizeTree, flattenVisible), the     *)
(* interactive session (model.Update, ensureCursorVisible), the exit path  *)
(* of main, and the Markdown assembler (maxRunByteInReader,                *)
(* fenceForContent, buildMarkdown).                                        *)
(*                                                                         *)
(* A Go string is a sequence of bytes; a byte is written as a short TLA+   *)
(* string ("NUL" names the byte 0, "NL" the newline, "BT" the backtick,    *)
(* "xFF" the byte 255)                                                     *)
(* and Ord gives its code, which is what < on strings and sort.Strings     *)
(* compare.                                                                *)
(***************************************************************************)
EXTENDS Integers, Sequences, FiniteSets, TLC

\* ------------------------------------------------------------------ bytes

Ord ==
  [c \in {"NUL", "NL", ".", "/", "D", "G", "M", "BT", "a", "b", "c", "d",
          "e", "f", "g", "i", "k", "l", "m", "o", "r", "s", "t", "x", "#", " ",
          "SOH", "TAB", "FF", "CR", "DEL", "xFF"} |->
     CASE c = "NUL" -> 0   [] c = "NL" -> 10 [] c = "." -> 46  [] c = "/" -> 47
       [] c = "D" -> 68    [] c = "G" -> 71  [] c = "M" -> 77  [] c = "BT" -> 96
       [] c = "a" -> 97    [] c = "b" -> 98  [] c = "c" -> 99  [] c = "d" -> 100
       [] c = "e" -> 101   [] c = "f" -> 102 [] c = "g" -> 103 [] c = "i" -> 105
       [] c = "k" -> 107   [] c = "l" -> 108 [] c = "m" -> 109 [] c = "o" -> 111
       [] c = "r" -> 114   [] c = "s" -> 115 [] c = "t" -> 116 [] c = "x" -> 120
       [] c = "#" -> 35    [] c = " " -> 32  [] c = "SOH" -> 1 [] c = "TAB" -> 9
       [] c = "FF" -> 12   [] c = "CR" -> 13 [] c = "DEL" -> 127 [] c = "xFF" -> 255]

Max(a, b) == IF a >= b THEN a ELSE b

\* F applied to the value of v, v evaluated first (call by value).
Strict(v, F(_)) == CHOOSE r \in {F(x) : x \in {v}} : TRUE

Min(a, b) == IF a <= b THEN a ELSE b

\* Go's s < t on strings: bytewise lexicographic, a proper prefix is smaller.
RECURSIVE StrLess(_, _)
StrLess(s, t) ==
  IF t = <<>> THEN FALSE
  ELSE IF s = <<>> THEN TRUE
  ELSE IF Head(s) = Head(t) THEN StrLess(Tail(s), Tail(t))
  ELSE Ord[Head(s)] < Ord[Head(t)]

HasPrefix(s, p) == Len(s) >= Len(p) /\ SubSeq(s, 1, Len(p)) = p

TrimPrefix(s, p) == IF HasPrefix(s, p) THEN SubSeq(s, Len(p) + 1, Len(s)) ELSE s

\* strings.Split(s, "/"): the segments between separators, empty ones kept.
RECURSIVE SplitFrom(_, _, _)
SplitFrom(s, i, cur) ==
  IF i > Len(s) THEN <<cur>>
  ELSE IF s[i] = "/" THEN <<cur>> \o SplitFrom(s, i + 1, <<>>)
  ELSE SplitFrom(s, i + 1, Append(cur, s[i]))

Split(s) == SplitFrom(s, 1, <<>>)

\* The OS separator of the build; filepath.FromSlash and filepath.ToSlash
\* exchange it with "/".
Separator == "/"

FromSlash(s) == [i \in 1..Len(s) |-> IF s[i] = "/" THEN Separator ELSE s[i]]

ToSlash(s) == [i \in 1..Len(s) |-> IF s[i] = Separator THEN "/" ELSE s[i]]

\* filepath.Join(dir, part) for the arguments buildTree passes: dir is a
\* clean path or ".", part is one segment without separator.  Empty
\* elements are dropped and the result is cleaned, so "." in front of a
\* name disappears.
Join(dir, part) ==
  IF part = <<>> THEN dir
  ELSE IF dir = <<>> \/ dir = <<".">> THEN part
  ELSE dir \o <<Separator>> \o part

\* ------------------------------------------------------------------- tree
\* The nodes live in an arena: a sequence of records, a *node is an index
\* into it, 0 is nil, and the root is node 1.

NilNode == 0

RootId == 1

newDir(nodes, parent, name, relBase) ==
  [name |-> name, relBase |-> relBase, isDir |-> TRUE, children |-> <<>>,
   parent |-> parent,
   depth |-> IF parent # NilNode THEN nodes[parent].depth + 1 ELSE 0,
   expanded |-> FALSE, selected |-> FALSE]

\* newFile that copies the depth of the parent.
newFileSameDepth(nodes, parent, name, relBase) ==
  [name |-> name, relBase |-> relBase, isDir |-> FALSE, children |-> <<>>,
   parent |-> parent,
   depth |-> IF parent # NilNode THEN nodes[parent].depth ELSE 0,
   expanded |-> FALSE, selected |-> FALSE]

newFile(nodes, parent, name, relBase) ==
  [name |-> name, relBase |-> relBase, isDir |-> FALSE, children |-> <<>>,
   parent |-> parent,
   depth |-> IF parent # NilNode THEN nodes[parent].depth + 1 ELSE 0,
   expanded |-> FALSE, selected |-> FALSE]

\* n.child(name): the childMap of a file is nil, so the lookup fails there.
child(nodes, n, name) ==
  IF ~nodes[n].isDir THEN NilNode
  ELSE LET hits == {i \in 1..Len(nodes[n].children) :
                      nodes[nodes[n].children[i]].name = name}
       IN IF hits = {} THEN NilNode
          ELSE nodes[n].children[CHOOSE i \in hits : TRUE]

addChildAnywhere(T, n, c) ==
  LET id == Len(T.nodes) + 1
  IN [T EXCEPT !.nodes = Append([T.nodes EXCEPT ![n].children =
                                   Append(T.nodes[n].children, id)], c)]

\* A tree under construction: the arena and whether addChild has panicked.
\* n.addChild(c) appends the new node c to the arena and to n's children,
\* and panics when n is a file.
addChild(T, n, c) ==
  IF ~T.nodes[n].isDir THEN [T EXCEPT !.panicked = TRUE]
  ELSE LET id == Len(T.nodes) + 1
       IN [T EXCEPT !.nodes = Append([T.nodes EXCEPT ![n].children =
                                        Append(T.nodes[n].children, id)], c)]

\* The inner loop of buildTree over the segments of one path.
RECURSIVE insertParts(_, _, _, _)
insertParts(T, cur, parts, i) ==
  IF T.panicked \/ i > Len(parts) THEN T
  ELSE LET part == parts[i]
           isLast == i = Len(parts)
           found == child(T.nodes, cur, part)
           rel == Join(T.nodes[cur].relBase, FromSlash(part))
       IN IF ~isLast
          THEN IF found # NilNode
               THEN insertParts(T, found, parts, i + 1)
               ELSE LET T2 == addChild(T, cur, newDir(T.nodes, cur, part, rel))
                    IN insertParts(T2, Len(T.nodes) + 1, parts, i + 1)
          ELSE IF found # NilNode
               THEN T
               ELSE addChild(T, cur, newFile(T.nodes, cur, part, rel))

\* One iteration of buildTree's loop over the input paths.
insertPath(T, startRelSlash, full) ==
  LET prefix == startRelSlash \o <<"/">>
      skip == startRelSlash # <<".">> /\ ~HasPrefix(full, prefix)
      within == IF startRelSlash # <<".">> THEN TrimPrefix(full, prefix)
                ELSE full
  IN IF T.panicked \/ skip \/ within = <<>> THEN T
     ELSE insertParts(T, RootId, Split(within), 1)

RECURSIVE insertAll(_, _, _, _)
insertAll(T, startRelSlash, files, k) ==
  IF k > Len(files) \/ T.panicked THEN T
  ELSE LET T2 == insertPath(T, startRelSlash, files[k])
       IN insertAll(T2, startRelSlash, files, k + 1)

childLessByName(nodes, a, b) == StrLess(nodes[a].name, nodes[b].name)

\* The comparison of finalizeTree's sort.Slice: directories first, then
\* by name.
childLess(nodes, a, b) ==
  IF nodes[a].isDir # nodes[b].isDir THEN nodes[a].isDir
  ELSE StrLess(nodes[a].name, nodes[b].name)

RECURSIVE insertSorted(_, _, _)
insertSorted(nodes, sorted, c) ==
  IF sorted = <<>> THEN <<c>>
  ELSE IF childLess(nodes, c, Head(sorted)) THEN <<c>> \o sorted
  ELSE <<Head(sorted)>> \o insertSorted(nodes, Tail(sorted), c)

\* The children ids[k..] inserted one after the other into sorted.
RECURSIVE sortFrom(_, _, _, _)
sortFrom(nodes, ids, k, sorted) ==
  IF k > Len(ids) THEN sorted
  ELSE Strict(insertSorted(nodes, sorted, ids[k]),
              LAMBDA s : sortFrom(nodes, ids, k + 1, s))

sortChildren(nodes, ids) == sortFrom(nodes, ids, 1, <<>>)

\* A directory with more than this many immediate children starts collapsed.
CollapseThreshold == 32

defaultExpandedStrict(count) == count < CollapseThreshold

\* n.expanded = len(n.children) <= 32
defaultExpanded(count) == count <= CollapseThreshold

RECURSIVE finalizeTree(_, _)
RECURSIVE finalizeEach(_, _, _)
finalizeEach(nodes, ids, k) ==
  IF k > Len(ids) THEN nodes
  ELSE Strict(finalizeTree(nodes, ids[k]),
              LAMBDA n1 : finalizeEach(n1, ids, k + 1))

finalizeTree(nodes, n) ==
  IF ~nodes[n].isDir THEN nodes
  ELSE LET sorted == sortChildren(nodes, nodes[n].children)
           n1 == [nodes EXCEPT ![n].children = sorted]
           n2 == finalizeEach(n1, sorted, 1)
       IN [n2 EXCEPT ![n].expanded = defaultExpanded(Len(sorted))]

\* buildTree: the arena it returns, and whether it panicked on the way.
buildTree(startRelSlash, files) ==
  LET root == newDir(<<>>, NilNode, startRelSlash, FromSlash(startRelSlash))
      T == insertAll([nodes |-> <<root>>, panicked |-> FALSE],
                     startRelSlash, files, 1)
  IN IF T.panicked THEN T
     ELSE [T EXCEPT !.nodes = finalizeTree(T.nodes, RootId)]

RECURSIVE flattenWalk(_, _)
RECURSIVE flattenEach(_, _, _)
flattenEach(nodes, ids, k) ==
  IF k > Len(ids) THEN <<>>
  ELSE flattenWalk(nodes, ids[k]) \o flattenEach(nodes, ids, k + 1)

\* A collapsed directory is left out together with its children.
flattenWalkHideCollapsed(nodes, n) ==
  IF nodes[n].isDir /\ ~nodes[n].expanded THEN <<>>
  ELSE <<n>> \o (IF nodes[n].isDir
                 THEN flattenEach(nodes, nodes[n].children, 1)
                 ELSE <<>>)

flattenWalkAll(nodes, n) ==
  <<n>> \o (IF nodes[n].isDir THEN flattenEach(nodes, nodes[n].children, 1)
            ELSE <<>>)

flattenWalk(nodes, n) ==
  <<n>> \o (IF nodes[n].isDir /\ nodes[n].expanded
            THEN flattenEach(nodes, nodes[n].children, 1)
            ELSE <<>>)

flattenVisible(nodes) == flattenWalk(nodes, RootId)

indexOfOneBased(ids, target) ==
  LET hits == {i \in 1..Len(ids) : ids[i] = target}
  IN IF hits = {} THEN 0 ELSE CHOOSE i \in hits : \A j \in hits : i <= j

\* indexOf, 0-based as in the source; 0 also when target is absent.
indexOf(ids, target) ==
  LET hits == {i \in 1..Len(ids) : ids[i] = target}
  IN IF hits = {} THEN 0
     ELSE (CHOOSE i \in hits : \A j \in hits : i <= j) - 1

\* ---------------------------------------------------------------- session
\* The fields of model that Update reads or writes.  The tree is shared by
\* pointer between the copies of model that Update receives and returns, so
\* the arena travels with the record.

newModel(nodes) ==
  [nodes |-> nodes, vis |-> flattenVisible(nodes), cursor |-> 0, offset |-> 0,
   width |-> 0, height |-> 0, selectedCount |-> 0,
   aborted |-> FALSE, confirmed |-> FALSE]

viewportHeight(m) == IF m.height - 2 < 1 THEN 1 ELSE m.height - 2

\* ensureCursorVisible without the move of the offset when the cursor has
\* passed the bottom of the viewport.
ensureCursorVisibleNoScroll(m) ==
  LET vh == viewportHeight(m)
      c1 == IF m.cursor < 0 THEN 0 ELSE m.cursor
      c2 == IF c1 >= Len(m.vis)
            THEN (IF Len(m.vis) - 1 < 0 THEN 0 ELSE Len(m.vis) - 1)
            ELSE c1
      o1 == IF c2 < m.offset THEN c2 ELSE m.offset
      maxOffset == IF Len(m.vis) - vh < 0 THEN 0 ELSE Len(m.vis) - vh
      o3 == IF o1 > maxOffset THEN maxOffset ELSE o1
      o4 == IF o3 < 0 THEN 0 ELSE o3
  IN [m EXCEPT !.cursor = c2, !.offset = o4]

ensureCursorVisible(m) ==
  LET vh == viewportHeight(m)
      c1 == IF m.cursor < 0 THEN 0 ELSE m.cursor
      c2 == IF c1 >= Len(m.vis)
            THEN (IF Len(m.vis) - 1 < 0 THEN 0 ELSE Len(m.vis) - 1)
            ELSE c1
      o1 == IF c2 < m.offset THEN c2 ELSE m.offset
      o2 == IF c2 >= o1 + vh THEN c2 - vh + 1 ELSE o1
      maxOffset == IF Len(m.vis) - vh < 0 THEN 0 ELSE Len(m.vis) - vh
      o3 == IF o2 > maxOffset THEN maxOffset ELSE o2
      o4 == IF o3 < 0 THEN 0 ELSE o3
  IN [m EXCEPT !.cursor = c2, !.offset = o4]

\* case tea.WindowSizeMsg
updateWindowSize(m, w, h) ==
  ensureCursorVisible([m EXCEPT !.width = w, !.height = h])

\* case key.Matches(msg, m.keys.Quit)
updateQuit(m) == [m EXCEPT !.aborted = TRUE]

\* case key.Matches(msg, m.keys.Up)
updateUp(m) ==
  ensureCursorVisible(IF m.cursor > 0 THEN [m EXCEPT !.cursor = m.cursor - 1]
                      ELSE m)

\* case key.Matches(msg, m.keys.Down)
updateDown(m) ==
  ensureCursorVisible(IF m.cursor < Len(m.vis) - 1
                      THEN [m EXCEPT !.cursor = m.cursor + 1]
                      ELSE m)

\* m.vis[m.cursor] (the model's sequences are 1-based)
nodeAtCursor(m) == m.vis[m.cursor + 1]

\* Expand that keeps the visible sequence it had.
updateRightStale(m) ==
  LET n == m.vis[m.cursor + 1]
  IN IF m.nodes[n].isDir /\ ~m.nodes[n].expanded
        /\ Len(m.nodes[n].children) > 0
     THEN ensureCursorVisible([m EXCEPT !.nodes[n].expanded = TRUE,
                                       !.cursor = indexOf(m.vis, n)])
     ELSE m

\* case key.Matches(msg, m.keys.Right)
updateRight(m) ==
  LET n == nodeAtCursor(m)
  IN IF m.nodes[n].isDir /\ ~m.nodes[n].expanded
        /\ Len(m.nodes[n].children) > 0
     THEN LET nodes2 == [m.nodes EXCEPT ![n].expanded = TRUE]
              vis2 == flattenVisible(nodes2)
          IN ensureCursorVisible([m EXCEPT !.nodes = nodes2, !.vis = vis2,
                                           !.cursor = indexOf(vis2, n)])
     ELSE m

\* Collapse that also folds the directories directly below the one under
\* the cursor.
updateLeftDeep(m) ==
  LET n == m.vis[m.cursor + 1]
  IN IF m.nodes[n].isDir /\ m.nodes[n].expanded
        /\ Len(m.nodes[n].children) > 0
     THEN LET under == {m.nodes[n].children[i] :
                          i \in 1..Len(m.nodes[n].children)}
              nodes2 == [i \in DOMAIN m.nodes |->
                           IF i = n \/ (i \in under /\ m.nodes[i].isDir)
                           THEN [m.nodes[i] EXCEPT !.expanded = FALSE]
                           ELSE m.nodes[i]]
              vis2 == flattenVisible(nodes2)
          IN ensureCursorVisible([m EXCEPT !.nodes = nodes2, !.vis = vis2,
                                           !.cursor = indexOf(vis2, n)])
     ELSE m

\* case key.Matches(msg, m.keys.Left)
updateLeft(m) ==
  LET n == nodeAtCursor(m)
  IN IF m.nodes[n].isDir /\ m.nodes[n].expanded
        /\ Len(m.nodes[n].children) > 0
     THEN LET nodes2 == [m.nodes EXCEPT ![n].expanded = FALSE]
              vis2 == flattenVisible(nodes2)
          IN ensureCursorVisible([m EXCEPT !.nodes = nodes2, !.vis = vis2,
                                           !.cursor = indexOf(vis2, n)])
     ELSE m

\* Toggle that counts every press as a selection.
updateToggleCountUp(m) ==
  LET n == m.vis[m.cursor + 1]
  IN IF ~m.nodes[n].isDir
     THEN [m EXCEPT !.nodes[n].selected = ~m.nodes[n].selected,
                    !.selectedCount = m.selectedCount + 1]
     ELSE m

\* Toggle that sets the flag instead of flipping it.
updateToggleSet(m) ==
  LET n == m.vis[m.cursor + 1]
  IN IF ~m.nodes[n].isDir
     THEN [m EXCEPT !.nodes[n].selected = TRUE,
                    !.selectedCount = m.selectedCount + 1]
     ELSE m

\* Toggle without the test for a directory.
updateToggleAny(m) ==
  LET n == m.vis[m.cursor + 1]
      sel == ~m.nodes[n].selected
  IN [m EXCEPT !.nodes[n].selected = sel,
               !.selectedCount = IF sel THEN m.selectedCount + 1
                                 ELSE m.selectedCount - 1]

\* case key.Matches(msg, m.keys.Toggle)
updateToggle(m) ==
  LET n == nodeAtCursor(m)
  IN IF ~m.nodes[n].isDir
     THEN LET sel == ~m.nodes[n].selected
          IN [m EXCEPT !.nodes[n].selected = sel,
                       !.selectedCount = IF sel THEN m.selectedCount + 1
                                         ELSE m.selectedCount - 1]
     ELSE m

\* No case matches: return m, nil
updateOther(m) == m

\* case key.Matches(msg, m.keys.Confirm)
updateConfirm(m) == [m EXCEPT !.confirmed = TRUE]

\* model.selectedFiles: the walk over the whole tree, then sort.Strings.
RECURSIVE selectedWalk(_, _)
RECURSIVE selectedEach(_, _, _)
selectedEach(nodes, ids, k) ==
  IF k > Len(ids) THEN <<>>
  ELSE selectedWalk(nodes, ids[k]) \o selectedEach(nodes, ids, k + 1)

selectedWalk(nodes, n) ==
  (IF ~nodes[n].isDir /\ nodes[n].selected
   THEN <<ToSlash(nodes[n].relBase)>> ELSE <<>>)
  \o (IF nodes[n].isDir THEN selectedEach(nodes, nodes[n].children, 1)
      ELSE <<>>)

RECURSIVE insertString(_, _)
insertString(sorted, s) ==
  IF sorted = <<>> THEN <<s>>
  ELSE IF StrLess(s, Head(sorted)) THEN <<s>> \o sorted
  ELSE <<Head(sorted)>> \o insertString(Tail(sorted), s)

\* selectedFiles without the sort: the order of the tree walk.
sortStringsNone(strs) == strs

RECURSIVE sortStrings(_)
sortStrings(strs) ==
  IF strs = <<>> THEN <<>>
  ELSE insertString(sortStrings(SubSeq(strs, 1, Len(strs) - 1)),
                    strs[Len(strs)])

selectedFiles(m) == sortStrings(selectedWalk(m.nodes, RootId))

\* -------------------------------------------------------------- assembler

\* isBinary looks at the first 8192 bytes of the file.
BinaryProbe == 8192

\* utf8.Valid on the bytes of the model: a byte of 0x80 or more never
\* stands alone in valid UTF-8, and the model has no multi-byte sequences.
utf8Valid(b) == \A i \in 1..Len(b) : Ord[b[i]] < 128

isCtrl(c) ==
  /\ c \notin {"NL", "CR", "TAB", "FF"}
  /\ (Ord[c] < 32 \/ Ord[c] = 127)

isBinary(content) ==
  LET b == SubSeq(content, 1, Min(Len(content), BinaryProbe))
      ctrl == Cardinality({i \in 1..Len(b) : isCtrl(b[i])})
  IN IF Len(b) = 0 THEN FALSE
     ELSE IF \E i \in 1..Len(b) : b[i] = "NUL" THEN TRUE
     ELSE IF utf8Valid(b) THEN FALSE
     ELSE ctrl * 10 > Len(b)

\* strings.ToLower on ASCII letters.
LowerOf ==
  ("A" :> "a" @@ "B" :> "b" @@ "C" :> "c" @@ "D" :> "d" @@ "E" :> "e"
   @@ "F" :> "f" @@ "G" :> "g" @@ "H" :> "h" @@ "I" :> "i" @@ "J" :> "j"
   @@ "K" :> "k" @@ "L" :> "l" @@ "M" :> "m" @@ "N" :> "n" @@ "O" :> "o"
   @@ "P" :> "p" @@ "Q" :> "q" @@ "R" :> "r" @@ "S" :> "s" @@ "T" :> "t"
   @@ "U" :> "u" @@ "V" :> "v" @@ "W" :> "w" @@ "X" :> "x" @@ "Y" :> "y"
   @@ "Z" :> "z")

ToLower(s) ==
  [i \in 1..Len(s) |-> IF s[i] \in DOMAIN LowerOf THEN LowerOf[s[i]] ELSE s[i]]

\* filepath.Base: the last element of the path.
Base(path) ==
  LET seps == {i \in 1..Len(path) : path[i] = Separator}
      last == IF seps = {} THEN 0 ELSE CHOOSE i \in seps : \A j \in seps : j <= i
  IN IF path = <<>> THEN <<".">> ELSE SubSeq(path, last + 1, Len(path))

\* filepath.Ext: the suffix of the last element that starts at its final dot.
Ext(path) ==
  LET b == IF path = <<>> THEN <<>> ELSE Base(path)
      dots == {i \in 1..Len(b) : b[i] = "."}
  IN IF dots = {} THEN <<>>
     ELSE SubSeq(b, CHOOSE i \in dots : \A j \in dots : j <= i, Len(b))

\* The extension switch of languageFor: <<extension, language>>.
LangTable ==
  {<<<<"g", "o">>, <<"g", "o">>>>,
   <<<<"m", "d">>, <<"m", "a", "r", "k", "d", "o", "w", "n">>>>,
   <<<<"m", "a", "r", "k", "d", "o", "w", "n">>, <<"m", "a", "r", "k", "d", "o", "w", "n">>>>,
   <<<<"t", "x", "t">>, <<"t", "e", "x", "t">>>>,
   <<<<"j", "s">>, <<"j", "a", "v", "a", "s", "c", "r", "i", "p", "t">>>>,
   <<<<"t", "s">>, <<"t", "y", "p", "e", "s", "c", "r", "i", "p", "t">>>>,
   <<<<"j", "s", "o", "n">>, <<"j", "s", "o", "n">>>>,
   <<<<"y", "a", "m", "l">>, <<"y", "a", "m", "l">>>>,
   <<<<"y", "m", "l">>, <<"y", "a", "m", "l">>>>,
   <<<<"t", "o", "m", "l">>, <<"t", "o", "m", "l">>>>,
   <<<<"s", "h">>, <<"b", "a", "s", "h">>>>,
   <<<<"b", "a", "s", "h">>, <<"b", "a", "s", "h">>>>,
   <<<<"z", "s", "h">>, <<"z", "s", "h">>>>,
   <<<<"p", "y">>, <<"p", "y", "t", "h", "o", "n">>>>,
   <<<<"r", "b">>, <<"r", "u", "b", "y">>>>,
   <<<<"p", "h", "p">>, <<"p", "h", "p">>>>,
   <<<<"j", "a", "v", "a">>, <<"j", "a", "v", "a">>>>,
   <<<<"k", "t">>, <<"k", "o", "t", "l", "i", "n">>>>,
   <<<<"r", "s">>, <<"r", "u", "s", "t">>>>,
   <<<<"c">>, <<"c">>>>,
   <<<<"h">>, <<"c">>>>,
   <<<<"c", "c">>, <<"c", "p", "p">>>>,
   <<<<"c", "p", "p">>, <<"c", "p", "p">>>>,
   <<<<"c", "x", "x">>, <<"c", "p", "p">>>>,
   <<<<"h", "p", "p">>, <<"c", "p", "p">>>>,
   <<<<"h", "h">>, <<"c", "p", "p">>>>,
   <<<<"c", "s">>, <<"c", "s", "h", "a", "r", "p">>>>,
   <<<<"h", "t", "m", "l">>, <<"h", "t", "m", "l">>>>,
   <<<<"h", "t", "m">>, <<"h", "t", "m", "l">>>>,
   <<<<"c", "s", "s">>, <<"c", "s", "s">>>>,
   <<<<"s", "c", "s", "s">>, <<"s", "c", "s", "s">>>>,
   <<<<"s", "q", "l">>, <<"s", "q", "l">>>>,
   <<<<"x", "m", "l">>, <<"x", "m", "l">>>>,
   <<<<"i", "n", "i">>, <<"i", "n", "i">>>>,
   <<<<"c", "o", "n", "f">>, <<"i", "n", "i">>>>}

languageFor(relOS) ==
  LET base == Base(relOS)
      ext0 == ToLower(Ext(relOS))
      ext == TrimPrefix(ext0, <<".">>)
      hits == {r \in LangTable : r[1] = ext}
  IN IF base = <<"D", "o", "c", "k", "e", "r", "f", "i", "l", "e">>
     THEN <<"d", "o", "c", "k", "e", "r", "f", "i", "l", "e">>
     ELSE IF base = <<"M", "a", "k", "e", "f", "i", "l", "e">>
     THEN <<"m", "a", "k", "e">>
     ELSE IF ext0 = <<>> THEN <<>>
     ELSE IF hits # {} THEN (CHOOSE r \in hits : TRUE)[2]
     ELSE ext

\* The read buffer of maxRunByteInReader.
BufLen == 32768

\* The scan with a run that starts afresh at every Read.
RECURSIVE scanBytesRest(_, _, _, _)
scanBytesRest(st, buf, i, b) ==
  IF i > Len(buf) THEN st
  ELSE IF buf[i] = b
  THEN LET run == st.run + 1
       IN scanBytesRest([run |-> run,
                         maxRun |-> IF run > st.maxRun THEN run
                                    ELSE st.maxRun],
                        buf, i + 1, b)
  ELSE scanBytesRest([st EXCEPT !.run = 0], buf, i + 1, b)

scanBytesFresh(st, buf, i, b) ==
  scanBytesRest(IF i = 1 THEN [st EXCEPT !.run = 0] ELSE st, buf, i, b)

\* The inner loop of maxRunByteInReader over the n bytes one Read returned;
\* the run in progress is carried over to the next Read.
RECURSIVE scanBytes(_, _, _, _)
scanBytes(st, buf, i, b) ==
  IF i > Len(buf) THEN st
  ELSE IF buf[i] = b
  THEN LET run == st.run + 1
       IN scanBytes([run |-> run,
                     maxRun |-> IF run > st.maxRun THEN run ELSE st.maxRun],
                    buf, i + 1, b)
  ELSE scanBytes([st EXCEPT !.run = 0], buf, i + 1, b)

Repeat(c, n) == [i \in 1..n |-> c]

MinFence == 3

fenceForContent(maxRun) ==
  LET n == IF maxRun + 1 < MinFence THEN MinFence ELSE maxRun + 1
  IN Repeat("BT", n)

\* bytes.TrimRight(out, "\n")
RECURSIVE TrimRightNL(_)
TrimRightNL(out) ==
  IF out # <<>> /\ out[Len(out)] = "NL"
  THEN TrimRightNL(SubSeq(out, 1, Len(out) - 1))
  ELSE out

\* fmt.Fprintf(w, "## %s\n\n", relSlash)
headingBytes(relSlash) == <<"#", "#", " ">> \o relSlash \o <<"NL", "NL">>

\* The binary branch of buildMarkdown's loop body, after the heading: what
\* it writes for the captured output of the file command.
binaryBlock(cmdOut) ==
  LET out == TrimRightNL(cmdOut)
      maxRun == scanBytes([run |-> 0, maxRun |-> 0], out, 1, "BT").maxRun
      fence == fenceForContent(maxRun)
  IN <<"BT", "BT", "BT", "NL">>
     \o fence \o <<"NL">>
     \o out
     \o <<"NL">>
     \o fence \o <<"NL">>
     \o <<"NL">>

\* The text branch of buildMarkdown's loop body once maxRunByteInFile has
\* returned maxRun.
textBlock(relOS, content, maxRun) ==
  LET fence == fenceForContent(maxRun)
      lang == languageFor(relOS)
  IN (IF lang # <<>> THEN fence \o lang \o <<"NL">> ELSE fence \o <<"NL">>)
     \o content
     \o <<"NL">>
     \o fence \o <<"NL">>
     \o <<"NL">>

\* tokens = (size + 3) / 4
tokensForFloor(size) == size \div 4

tokensFor(size) == (size + 3) \div 4

\* ---------------------------------------------------------- the program

VARIABLES
  startRelSlash,  \* main: the traversal root, relative to base
  listed,         \* main: the paths gitListFiles or walkFiles returned
  allowBinary,    \* main: the -b flag
  fs,             \* the files under base: path -> content
  desc,           \* what the file command prints for a path
  m,              \* the model value the event loop holds
  pc,             \* where the program is
  selected,       \* main: the list selectedFiles returned
  next,           \* buildMarkdown: index of the next path of its loop
  scan,           \* maxRunByteInReader: bytes consumed, run, maxRun
  reads,          \* maxRunByteInReader: the n of each Read so far
  w,              \* buildMarkdown: the bytes written to the output file
  outFiles,       \* the documents created under .mkctx
  stdout          \* the lines printed

vars == <<startRelSlash, listed, allowBinary, fs, desc, m, pc, selected, next,
          scan, reads, w, outFiles, stdout>>

\* bounds
MaxHeight == 5

MaxPaths == 2

MaxSegs == 2

MaxContent == 3

MaxDesc == 3

MaxWide == 34

\* Terminal heights of a resize: 0, and those that give a viewport of 2
\* lines or more (heights 1 to 3 give the same 1-line viewport as 0).
Heights == {0} \cup 4..MaxHeight

Widths == {80}

RECURSIVE SeqsUpTo(_, _)
SeqsUpTo(S, n) ==
  IF n = 0 THEN {<<>>}
  ELSE LET shorter == SeqsUpTo(S, n - 1)
       IN shorter \cup {Append(q, x) : q \in {r \in shorter : Len(r) = n - 1},
                                       x \in S}

Range(f) == {f[i] : i \in DOMAIN f}

\* model{}: the zero value, before newModel has run.
ZeroModel ==
  [nodes |-> <<>>, vis |-> <<>>, cursor |-> 0, offset |-> 0, width |-> 0,
   height |-> 0, selectedCount |-> 0, aborted |-> FALSE, confirmed |-> FALSE]

ZeroScan == [pos |-> 0, run |-> 0, maxRun |-> 0]

\* The listing of a small repository, as git ls-files or walkFiles gives it
\* for the start directory, with the content of each file and the output
\* of the file command for it.  The last one holds one binary file: without
\* -b the tree is a root with no children.
SessionInputs ==
  {[start |-> <<".">>,
    listed |-> << <<"a", ".", "g", "o">>, <<"a", "/", "b", "/", "c">>,
                  <<"a", "/", "d", ".", "m", "d">> >>,
    fs |-> (<<"a", ".", "g", "o">> :> <<"x", "BT">>
            @@ <<"a", "/", "b", "/", "c">> :> <<"x", "NUL">>
            @@ <<"a", "/", "d", ".", "m", "d">> :> <<"BT", "BT", "BT">>),
    desc |-> (<<"a", ".", "g", "o">> :> <<"x", "NL">>
              @@ <<"a", "/", "b", "/", "c">> :> <<"BT", "BT", "BT", "x", "NL">>
              @@ <<"a", "/", "d", ".", "m", "d">> :> <<"x", "NL">>)],
   [start |-> <<"a">>,
    listed |-> << <<"a", "/", "b", "/", "c">>,
                  <<"a", "/", "d", ".", "m", "d">> >>,
    fs |-> (<<"a", "/", "b", "/", "c">> :> <<"BT", "NL">>
            @@ <<"a", "/", "d", ".", "m", "d">> :> <<>>),
    desc |-> (<<"a", "/", "b", "/", "c">> :> <<"x", "NL">>
              @@ <<"a", "/", "d", ".", "m", "d">> :> <<"x", "NL">>)],
   [start |-> <<".">>,
    listed |-> << <<"c">> >>,
    fs |-> (<<"c">> :> <<"NUL">>),
    desc |-> (<<"c">> :> <<"x", "NL">>)]}

Idle ==
  /\ m = ZeroModel /\ pc = "start" /\ selected = <<>> /\ next = 0
  /\ scan = ZeroScan /\ reads = <<>> /\ w = <<>> /\ outFiles = <<>>
  /\ stdout = <<>>

Init ==
  /\ \E in \in SessionInputs :
       /\ startRelSlash = in.start /\ listed = in.listed
       /\ fs = in.fs /\ desc = in.desc
  /\ allowBinary \in BOOLEAN
  /\ Idle

\* main, from the binary filter to newModel.
RECURSIVE filterText(_, _, _)
filterText(files, k, content) ==
  IF k > Len(files) THEN <<>>
  ELSE (IF isBinary(content[files[k]]) THEN <<>> ELSE <<files[k]>>)
       \o filterText(files, k + 1, content)

mainTree(start, files, allow, content) ==
  buildTree(start, IF ~allow THEN filterText(files, 1, content) ELSE files)

mainStart ==
  /\ pc = "start"
  /\ LET T == mainTree(startRelSlash, listed, allowBinary, fs)
     IN IF T.panicked
        THEN pc' = "panic" /\ m' = m
        ELSE pc' = "run" /\ m' = newModel(T.nodes)
  /\ UNCHANGED <<startRelSlash, listed, allowBinary, fs, desc, selected, next,
                 scan, reads, w, outFiles, stdout>>

\* The event loop of p.Run() hands a message to Update while it has not
\* returned; the QuitMsg that a tea.Quit command produces is queued behind
\* the messages that are already waiting.
Looping == pc \in {"run", "quit"}

Frame == UNCHANGED <<startRelSlash, listed, allowBinary, fs, desc, selected,
                     next, scan, reads, w, outFiles, stdout>>

WindowSize ==
  /\ Looping
  /\ \E wd \in Widths, h \in Heights : m' = updateWindowSize(m, wd, h)
  /\ pc' = pc /\ Frame

KeyQuit == Looping /\ m' = updateQuit(m) /\ pc' = "quit" /\ Frame

KeyUp == Looping /\ m' = updateUp(m) /\ pc' = pc /\ Frame

KeyDown == Looping /\ m' = updateDown(m) /\ pc' = pc /\ Frame

KeyRight == Looping /\ m' = updateRight(m) /\ pc' = pc /\ Frame

KeyLeft == Looping /\ m' = updateLeft(m) /\ pc' = pc /\ Frame

KeyToggle == Looping /\ m' = updateToggle(m) /\ pc' = pc /\ Frame

KeyConfirm == Looping /\ m' = updateConfirm(m) /\ pc' = "quit" /\ Frame

\* A key with no binding falls through the switch.
KeyOther == Looping /\ m' = updateOther(m) /\ pc' = pc /\ Frame

\* The event loop receives the QuitMsg and p.Run() returns the model.
QuitMsg == pc = "quit" /\ pc' = "exited" /\ m' = m /\ Frame

\* main after p.Run().
mainAfterRun ==
  /\ pc = "exited"
  /\ IF m.aborted
     THEN pc' = "done" /\ UNCHANGED <<selected, next, w>>
     ELSE IF m.confirmed
     THEN pc' = "build" /\ selected' = selectedFiles(m) /\ next' = 1
          /\ w' = <<>>
     ELSE pc' = "done" /\ UNCHANGED <<selected, next, w>>
  /\ UNCHANGED <<startRelSlash, listed, allowBinary, fs, desc, m, scan, reads,
                 outFiles, stdout>>

\* buildMarkdown: one pass of the loop for a file of the binary branch.
buildBinary ==
  /\ pc = "build" /\ next <= Len(selected)
  /\ LET relSlash == selected[next]
     IN /\ allowBinary /\ isBinary(fs[relSlash])
        /\ w' = w \o headingBytes(relSlash) \o binaryBlock(desc[relSlash])
  /\ next' = next + 1
  /\ UNCHANGED <<startRelSlash, listed, allowBinary, fs, desc, m, pc, selected,
                 scan, reads, outFiles, stdout>>

\* buildMarkdown: the heading of a file of the text branch, and the start
\* of maxRunByteInFile.
buildHeading ==
  /\ pc = "build" /\ next <= Len(selected)
  /\ LET relSlash == selected[next]
     IN /\ ~(allowBinary /\ isBinary(fs[relSlash]))
        /\ w' = w \o headingBytes(relSlash)
  /\ pc' = "scan" /\ scan' = ZeroScan /\ reads' = <<>>
  /\ UNCHANGED <<startRelSlash, listed, allowBinary, fs, desc, m, selected,
                 next, outFiles, stdout>>

\* maxRunByteInReader: one r.Read and the loop over what it returned.  A
\* Read returns between 1 and len(buf) of the remaining bytes, and reports
\* io.EOF with the last of them or on a further call that returns nothing.
readChunk ==
  /\ pc = "scan"
  /\ LET content == fs[selected[next]]
         rest == Len(content) - scan.pos
     IN \E n \in 0..Min(BufLen, rest), eof \in BOOLEAN :
          /\ eof => n = rest
          /\ n = 0 => eof
          /\ LET st == scanBytes([run |-> scan.run, maxRun |-> scan.maxRun],
                                 SubSeq(content, scan.pos + 1, scan.pos + n),
                                 1, "BT")
             IN scan' = [pos |-> scan.pos + n, run |-> st.run,
                         maxRun |-> st.maxRun]
          /\ reads' = Append(reads, n)
          /\ pc' = IF eof THEN "write" ELSE "scan"
  /\ UNCHANGED <<startRelSlash, listed, allowBinary, fs, desc, m, selected,
                 next, w, outFiles, stdout>>

\* buildMarkdown: the fenced block of a file of the text branch.
buildText ==
  /\ pc = "write"
  /\ LET relSlash == selected[next]
     IN w' = w \o textBlock(FromSlash(relSlash), fs[relSlash], scan.maxRun)
  /\ next' = next + 1 /\ pc' = "build"
  /\ UNCHANGED <<startRelSlash, listed, allowBinary, fs, desc, m, selected,
                 scan, reads, outFiles, stdout>>

\* buildMarkdown after the loop, and the Printf of main.
buildFinish ==
  /\ pc = "build" /\ next > Len(selected)
  /\ outFiles' = Append(outFiles, w)
  /\ LET size == Len(w)
     IN stdout' = stdout \o <<[key |-> "path", val |-> Len(outFiles) + 1],
                              [key |-> "bytes", val |-> size],
                              [key |-> "tokens", val |-> tokensFor(size)]>>
  /\ pc' = "done"
  /\ UNCHANGED <<startRelSlash, listed, allowBinary, fs, desc, m, selected,
                 next, scan, reads, w>>

Next ==
  \/ mainStart
  \/ WindowSize \/ KeyQuit \/ KeyUp \/ KeyDown \/ KeyRight \/ KeyLeft
  \/ KeyToggle \/ KeyConfirm \/ KeyOther \/ QuitMsg
  \/ mainAfterRun \/ buildBinary \/ buildHeading \/ readChunk \/ buildText
  \/ buildFinish

Spec == Init /\ [][Next]_vars

\* ------------------------------------------------- buildTree on any input
\* Every list of at most MaxPaths paths of at most MaxSegs segments, the
\* malformed ones included (empty segments, a name used for a file and for
\* a directory), and the listings of one directory of up to MaxWide files;
\* every listed path is a readable text file.

SegNames == {<<"a">>, <<"b">>, <<>>}

RECURSIVE JoinSlash(_)
JoinSlash(segs) ==
  IF Len(segs) = 1 THEN segs[1]
  ELSE segs[1] \o <<"/">> \o JoinSlash(Tail(segs))

InputPaths == {JoinSlash(segs) : segs \in SeqsUpTo(SegNames, MaxSegs) \ {<<>>}}

StartDirs == {<<".">>, <<"a">>}

\* A directory a with n files b, bb, bbb, ... listed in descending order:
\* the root itself when the start directory is a.
WideName(k) == [i \in 1..k |-> "b"]

WideList(n) == [k \in 1..n |-> <<"a", "/">> \o WideName(n + 1 - k)]

WideLists == {WideList(n) : n \in 0..MaxWide}

InitBuild ==
  /\ startRelSlash \in StartDirs
  /\ listed \in SeqsUpTo(InputPaths, MaxPaths) \cup WideLists
  /\ allowBinary = FALSE
  /\ fs = [p \in Range(listed) |-> <<"x">>]
  /\ desc = [p \in Range(listed) |-> <<"x", "NL">>]
  /\ Idle

NextBuild == mainStart

SpecBuild == InitBuild /\ [][NextBuild]_vars

\* ---------------------------------------------- buildMarkdown on any file
\* A repository of one file with any content of at most MaxContent bytes
\* and any output of the file command of at most MaxDesc bytes; the user
\* has moved to the file, selected it, moved back and confirmed, and
\* p.Run() has returned.

ContentBytes == {"BT", "NL", "x", "NUL"}

DescBytes == {"BT", "NL", "x"}

FileNames == {<<"a", ".", "g", "o">>, <<"c">>}

InitAsm ==
  /\ startRelSlash = <<".">>
  /\ \E name \in FileNames :
       /\ listed = <<name>>
       /\ \E content \in SeqsUpTo(ContentBytes, MaxContent) :
            fs = (name :> content)
       /\ \E out \in SeqsUpTo(DescBytes, MaxDesc) : desc = (name :> out)
  /\ allowBinary \in BOOLEAN
  /\ \E m0 \in {newModel(mainTree(startRelSlash, listed, allowBinary,
                                  fs).nodes)} :
     \E m1 \in {updateDown(m0)} :
     \E m2 \in {updateToggle(m1)} :
     \E m3 \in {updateUp(m2)} : m = updateConfirm(m3)
  /\ pc = "exited"
  /\ selected = <<>> /\ next = 0 /\ scan = ZeroScan /\ reads = <<>>
  /\ w = <<>> /\ outFiles = <<>> /\ stdout = <<>>

NextAsm ==
  \/ mainAfterRun \/ buildBinary \/ buildHeading \/ readChunk \/ buildText
  \/ buildFinish

SpecAsm == InitAsm /\ [][NextAsm]_vars

\* ================================================================= claims

\* newModel has run and the session state exists.
Started == pc \notin {"start", "panic"}

FileNodes(nodes) == {n \in DOMAIN nodes : ~nodes[n].isDir}

SelectedNodes(nodes) == {n \in FileNodes(nodes) : nodes[n].selected}

RECURSIVE IsUnder(_, _, _)
IsUnder(nodes, n, d) ==
  /\ nodes[n].parent # NilNode
  /\ (nodes[n].parent = d \/ IsUnder(nodes, nodes[n].parent, d))

\* C1: in every state of the session, before the first resize too, the
\* cursor lies in [offset, offset + viewportHeight) and the offset lies in
\* [0, max(0, len(visible) - viewportHeight)], with viewportHeight =
\* max(1, height - 2).
C1_ViewportInvariant ==
  Started =>
    LET vh == Max(1, m.height - 2)
    IN /\ m.offset <= m.cursor /\ m.cursor < m.offset + vh
       /\ 0 <= m.offset /\ m.offset <= Max(0, Len(m.vis) - vh)

\* The view is scrolled and the cursor sits on the last line of a viewport
\* of two lines or more.
C1_Witness ==
  /\ Started /\ m.height >= 4 /\ m.offset > 0
  /\ m.cursor = m.offset + (m.height - 2) - 1

\* C2 (as claimed): once aborted or confirmed is set, no message given to
\* Update changes anything of the session state.
C2_TerminalFrozen == [][(m.aborted \/ m.confirmed) => m' = m]_vars

\* C3: selectedCount is the number of file nodes of the whole tree whose
\* selected flag is set, visible or not; it is never negative.
C3_CountMatchesFlags ==
  Started => /\ m.selectedCount = Cardinality(SelectedNodes(m.nodes))
             /\ m.selectedCount >= 0

\* Two files are selected, one was deselected again (the third file is
\* not selected), and a selected one is hidden under a collapsed directory.
C3_Witness ==
  /\ Started /\ m.selectedCount = 2
  /\ \E n \in SelectedNodes(m.nodes) : n \notin Range(m.vis)
  /\ pc = "run"

\* C8: with the cursor on an expanded, non-empty directory D, Collapse and
\* then Expand give back the visible sequence, keep the cursor on D, and
\* leave every selected flag, every expanded flag and selectedCount as they
\* were.
C8_CollapseExpandRestores ==
  (Started /\ m.nodes[nodeAtCursor(m)].isDir
     /\ m.nodes[nodeAtCursor(m)].expanded
     /\ Len(m.nodes[nodeAtCursor(m)].children) > 0) =>
    \A m1 \in {updateLeft(m)} : \A m2 \in {updateRight(m1)} :
      /\ m1.vis # m.vis
      /\ ~m1.nodes[nodeAtCursor(m)].expanded
      /\ m2.vis = m.vis
      /\ m2.cursor = m.cursor /\ nodeAtCursor(m2) = nodeAtCursor(m)
      /\ m2.nodes = m.nodes
      /\ m2.selectedCount = m.selectedCount

\* The cursor is on an expanded directory that holds a collapsed directory
\* with children and a selected file, and the cursor is not at the top.
C8_Witness ==
  /\ pc = "run" /\ m.cursor > 0
  /\ LET d == nodeAtCursor(m)
     IN /\ m.nodes[d].isDir /\ m.nodes[d].expanded
        /\ \E c \in DOMAIN m.nodes :
             /\ m.nodes[c].parent = d /\ m.nodes[c].isDir
             /\ ~m.nodes[c].expanded /\ Len(m.nodes[c].children) > 0
        /\ \E f \in SelectedNodes(m.nodes) : IsUnder(m.nodes, f, d)

\* C9: with the cursor on a file, the first Toggle flips its selected flag
\* and moves selectedCount by one, and the second Toggle gives back the
\* state as it was: the flag, selectedCount and every other node.
C9_ToggleTwice ==
  (Started /\ ~m.nodes[nodeAtCursor(m)].isDir) =>
    \A m1 \in {updateToggle(m)} : \A m2 \in {updateToggle(m1)} :
      /\ m1.nodes[nodeAtCursor(m)].selected
           # m.nodes[nodeAtCursor(m)].selected
      /\ m1.selectedCount # m.selectedCount
      /\ m2.nodes = m.nodes
      /\ m2.selectedCount = m.selectedCount

\* The cursor is on a selected file while another file is selected too.
C9_Witness ==
  /\ pc = "run" /\ ~m.nodes[nodeAtCursor(m)].isDir
  /\ m.nodes[nodeAtCursor(m)].selected /\ m.selectedCount >= 2

\* ------------------------------------------- reading the written document

\* The k-th smallest of a set of numbers.
Kth(S, k) == CHOOSE x \in S : Cardinality({y \in S : y < x}) = k - 1

\* Where a heading starts: "## " at the start of a line.
HeadStarts(doc) ==
  {i \in 1..Len(doc) - 2 :
     /\ doc[i] = "#" /\ doc[i + 1] = "#" /\ doc[i + 2] = " "
     /\ (i = 1 \/ doc[i - 1] = "NL")}

\* The rest of the line from position i.
RECURSIVE LineFrom(_, _)
LineFrom(doc, i) ==
  IF i > Len(doc) \/ doc[i] = "NL" THEN <<>>
  ELSE <<doc[i]>> \o LineFrom(doc, i + 1)

Headings(doc) ==
  [k \in 1..Cardinality(HeadStarts(doc)) |->
     LineFrom(doc, Kth(HeadStarts(doc), k) + 3)]

\* The number of backticks in a row from position i.
RECURSIVE RunFrom(_, _)
RunFrom(doc, i) ==
  IF i > Len(doc) \/ doc[i] # "BT" THEN 0 ELSE 1 + RunFrom(doc, i + 1)

\* The length of the longest run of backticks in c.
LongestRun(c) ==
  LET runs == {j - i + 1 : i \in 1..Len(c), j \in 1..Len(c)}
      full == {r \in runs :
                 \E i \in 1..Len(c) :
                   /\ i + r - 1 <= Len(c)
                   /\ \A k \in i..(i + r - 1) : c[k] = "BT"}
  IN IF full = {} THEN 0 ELSE CHOOSE r \in full : \A q \in full : q <= r

\* The strings of a set in ascending order.
RECURSIVE Ascending(_)
Ascending(S) ==
  IF S = {} THEN <<>>
  ELSE LET least == CHOOSE x \in S : \A y \in S \ {x} : StrLess(x, y)
       IN <<least>> \o Ascending(S \ {least})

RECURSIVE Concat(_)
Concat(seqs) == IF seqs = <<>> THEN <<>> ELSE Head(seqs) \o Concat(Tail(seqs))

Built == pc = "done" /\ outFiles # <<>>

\* The file is written through the binary branch.
IsBinaryBlock(rel) == allowBinary /\ isBinary(fs[rel])

\* What the block of a file embeds.
Embedded(rel) == IF IsBinaryBlock(rel) THEN TrimRightNL(desc[rel]) ELSE fs[rel]

\* C4: the list selectedFiles returns is the set of the paths of all
\* selected file nodes of the whole tree in ascending order, which depends
\* on nothing but that set, and the headings of the document follow the
\* list.
C4_SelectedSortedAndEmitted ==
  /\ pc \in {"build", "scan", "write"} \/ Built =>
       selected = Ascending({ToSlash(m.nodes[n].relBase) :
                               n \in SelectedNodes(m.nodes)})
  /\ Built => Headings(outFiles[1]) = selected

\* The document is written for two or more files, one of them under a
\* directory that is collapsed, and the walk of the tree meets them in
\* another order than the list.
C4_Witness ==
  /\ Built /\ Len(selected) >= 2
  /\ \E n \in SelectedNodes(m.nodes) : n \notin Range(m.vis)
  /\ selectedWalk(m.nodes, RootId) # selected

\* C5 (as claimed): the section of every selected file is the heading, a
\* blank line, the negotiated fence (with the language tag for a text
\* file, bare for a binary description), the content, the negotiated fence
\* and a blank line, and nothing else.
ClaimedSection(rel) ==
  LET content == Embedded(rel)
      fence == Repeat("BT", Max(LongestRun(content) + 1, 3))
      tag == IF IsBinaryBlock(rel) THEN <<>> ELSE languageFor(FromSlash(rel))
  IN <<"#", "#", " ">> \o rel \o <<"NL">>
     \o <<"NL">>
     \o fence \o tag \o <<"NL">>
     \o content \o <<"NL">>
     \o fence \o <<"NL">>
     \o <<"NL">>

C5_SectionFormat ==
  Built =>
    outFiles[1] = Concat([k \in 1..Len(selected) |-> ClaimedSection(selected[k])])

\* C6: whatever the Reads return, at io.EOF maxRun is the length of the
\* longest run of backticks of the whole content and the fence is
\* max(maxRun + 1, 3) backticks, 3 for a content without backtick.
C6_FenceLength ==
  pc = "write" =>
    LET content == fs[selected[next]]
        k == LongestRun(content)
        fence == fenceForContent(scan.maxRun)
    IN /\ scan.pos = Len(content)
       /\ scan.maxRun = k
       /\ Len(fence) = Max(k + 1, 3)
       /\ \A i \in 1..Len(fence) : fence[i] = "BT"
       /\ (\A i \in 1..Len(content) : content[i] # "BT") => Len(fence) = 3

\* The content was read in two or more Reads and the first Read ended in
\* the middle of a run of three backticks.
C6_Witness ==
  /\ pc = "write" /\ Len(reads) >= 2 /\ scan.maxRun = 3
  /\ LET content == fs[selected[next]]
     IN /\ reads[1] >= 1 /\ reads[1] < Len(content)
        /\ content[reads[1]] = "BT" /\ content[reads[1] + 1] = "BT"

Inserted(full) ==
  /\ startRelSlash # <<".">> => HasPrefix(full, startRelSlash \o <<"/">>)
  /\ (IF startRelSlash # <<".">>
      THEN TrimPrefix(full, startRelSlash \o <<"/">>) ELSE full) # <<>>

\* The segments of a listed path relative to the traversal root.
Segments(full) ==
  Split(IF startRelSlash # <<".">>
        THEN TrimPrefix(full, startRelSlash \o <<"/">>) ELSE full)

\* The node named by the first j segments, looked up by name from the root.
RECURSIVE NodeAt(_, _, _)
NodeAt(nodes, parts, j) ==
  IF j = 0 THEN RootId
  ELSE LET up == NodeAt(nodes, parts, j - 1)
           hits == IF up = NilNode THEN {}
                   ELSE {c \in DOMAIN nodes :
                           nodes[c].parent = up /\ nodes[c].name = parts[j]}
       IN IF hits = {} THEN NilNode ELSE CHOOSE c \in hits : TRUE

\* C10 (as claimed): the depth of a node is the number of segments of its
\* path relative to the traversal root minus one.
C10_DepthSegmentsMinusOne ==
  pc = "run" =>
    \A i \in 1..Len(listed) :
      Inserted(listed[i]) =>
        \A j \in 1..Len(Segments(listed[i])) :
          LET n == NodeAt(m.nodes, Segments(listed[i]), j)
          IN n # NilNode /\ m.nodes[n].depth = j - 1

\* C10 (amended): the root has depth 0, every other node is named by the
\* first j segments of a listed path and has depth j, the number of
\* segments of its path relative to the traversal root, which is the depth
\* of its parent plus one.
C10_DepthIsSegments ==
  pc = "run" =>
    /\ m.nodes[RootId].depth = 0
    /\ \A i \in 1..Len(listed) :
         Inserted(listed[i]) =>
           \A j \in 1..Len(Segments(listed[i])) :
             LET n == NodeAt(m.nodes, Segments(listed[i]), j)
             IN n # NilNode /\ m.nodes[n].depth = j
    /\ \A n \in DOMAIN m.nodes \ {RootId} :
         /\ \E i \in 1..Len(listed) :
              /\ Inserted(listed[i])
              /\ \E j \in 1..Len(Segments(listed[i])) :
                   NodeAt(m.nodes, Segments(listed[i]), j) = n
         /\ m.nodes[n].depth = m.nodes[m.nodes[n].parent].depth + 1

\* The tree holds a file two levels below the root and a file directly
\* below it.
C10_Witness ==
  /\ pc = "run"
  /\ \E n \in FileNodes(m.nodes) : m.nodes[n].depth = 2
  /\ \E n \in FileNodes(m.nodes) : m.nodes[n].depth = 1

\* ------------------------------------------------------------ C11 .. C20

IsDirNode(n) == m.nodes[n].isDir

Dirs == {n \in 1..Len(m.nodes) : IsDirNode(n)}

NameOf(n) == m.nodes[n].name

Kids(n) == m.nodes[n].children

\* C11: for every list of input paths, in any order and with or without
\* duplicates, the children of every directory of the built tree are
\* ordered with all directories before all files, each of the two groups
\* ascending by name, and no two siblings have the same name.
C11_ChildrenSorted ==
  pc = "run" =>
    \A d \in Dirs : \A i, j \in 1..Len(Kids(d)) :
      i < j =>
        /\ IsDirNode(Kids(d)[i]) \/ ~IsDirNode(Kids(d)[j])
        /\ IsDirNode(Kids(d)[i]) = IsDirNode(Kids(d)[j])
             => StrLess(NameOf(Kids(d)[i]), NameOf(Kids(d)[j]))
        /\ NameOf(Kids(d)[i]) # NameOf(Kids(d)[j])

\* A root whose file a was inserted before its directory b and is sorted
\* after it.
C11_Witness ==
  /\ pc = "run" /\ Len(Kids(RootId)) = 2
  /\ IsDirNode(Kids(RootId)[1]) /\ ~IsDirNode(Kids(RootId)[2])
  /\ StrLess(NameOf(Kids(RootId)[2]), NameOf(Kids(RootId)[1]))
  /\ Kids(RootId)[2] < Kids(RootId)[1]

\* The last segment of a path is empty: the path ends in the separator.
LastSegEmpty(full) == Split(full)[Len(Split(full))] = <<>>

WithoutTrailing(files) == SelectSeq(files, LAMBDA p : ~LastSegEmpty(p))

\* C12: an input path whose last segment is empty (a path ending in the
\* separator, such as dir/) is ignored by buildTree: it adds no node,
\* neither an empty-named file leaf nor the directories of its leading
\* segments, so the result is the one buildTree gives for the list without
\* such paths.
C12_TrailingSeparatorIgnored ==
  \A T \in {buildTree(startRelSlash, WithoutTrailing(listed))} :
    /\ pc = "run" => ~T.panicked /\ m.nodes = T.nodes
    /\ pc = "panic" => T.panicked

\* The listed paths that buildTree inserts, by position in the list.
InsertedAt == {k \in 1..Len(listed) : Inserted(listed[k])}

IsProperPrefix(p, q) == Len(p) < Len(q) /\ SubSeq(q, 1, Len(p)) = p

\* Path k puts a file node at its place: no earlier path has made that
\* place a directory.
FileInsertedAt(k) ==
  /\ k \in InsertedAt
  /\ ~\E e \in InsertedAt :
        e < k /\ IsProperPrefix(Segments(listed[k]), Segments(listed[e]))

\* A path needs a directory at a segment where an earlier path has put a
\* file node of the same name.
Collision ==
  \E f, k \in InsertedAt :
    /\ f < k /\ FileInsertedAt(f)
    /\ IsProperPrefix(Segments(listed[f]), Segments(listed[k]))

\* C13: buildTree fails fatally exactly when an input path needs a
\* directory at a segment where a file node of the same name was already
\* inserted (file a followed by a/b), and a tree it returns has no file
\* node with children.
C13_PanicIffCollision ==
  /\ pc # "start" => (pc = "panic" <=> Collision)
  /\ pc = "run" =>
       \A n \in 1..Len(m.nodes) :
         /\ ~IsDirNode(n) => Kids(n) = <<>>
         /\ n # RootId => IsDirNode(m.nodes[n].parent)

C13_Witness == pc = "panic" /\ Collision /\ Len(listed) = 2

StdoutKeys == [i \in 1..Len(stdout) |-> stdout[i].key]

\* C14: when the program has finished, a session in which Quit was
\* accepted has created no output document and printed nothing, and a
\* session in which Confirm was accepted has assembled exactly one
\* document and printed exactly the lines path=, bytes=, tokens= in that
\* order.
C14_OutcomeOutput ==
  pc = "done" =>
    /\ m.aborted => outFiles = <<>> /\ stdout = <<>>
    /\ m.confirmed =>
         Len(outFiles) = 1 /\ StdoutKeys = <<"path", "bytes", "tokens">>

RECURSIVE Ancestors(_)
Ancestors(n) ==
  IF m.nodes[n].parent = NilNode THEN {}
  ELSE {m.nodes[n].parent} \cup Ancestors(m.nodes[n].parent)

AncestorsExpanded(n) == \A a \in Ancestors(n) : m.nodes[a].expanded

\* The child positions on the way from the root down to n.
RECURSIVE PathKey(_)
PathKey(n) ==
  IF n = RootId THEN <<>>
  ELSE LET p == m.nodes[n].parent
       IN Append(PathKey(p), CHOOSE i \in 1..Len(Kids(p)) : Kids(p)[i] = n)

\* a comes before b in the depth-first pre-order of the whole tree.
PreOrderBefore(a, b) ==
  LET ka == PathKey(a)
      kb == PathKey(b)
  IN \/ IsProperPrefix(ka, kb)
     \/ \E i \in 1..Min(Len(ka), Len(kb)) :
          ka[i] < kb[i] /\ SubSeq(ka, 1, i - 1) = SubSeq(kb, 1, i - 1)

\* C16: flattenVisible gives the depth-first pre-order of the nodes whose
\* ancestors are all expanded: the root is first, a directory is included
\* whether or not it is expanded itself, and its children follow it, in
\* child order, exactly when it is expanded.
C16_FlattenPreOrder ==
  Started =>
    \A v \in {flattenVisible(m.nodes)} :
      /\ v[1] = RootId
      /\ Range(v) = {n \in 1..Len(m.nodes) : AncestorsExpanded(n)}
      /\ \A i, j \in 1..Len(v) : i < j => PreOrderBefore(v[i], v[j])

\* A collapsed directory with children is listed next to other entries.
C16_Witness ==
  /\ Started
  /\ \E d \in Dirs \ {RootId} :
        /\ ~m.nodes[d].expanded /\ Kids(d) # <<>>
        /\ d \in Range(flattenVisible(m.nodes))
  /\ Len(flattenVisible(m.nodes)) > 2

\* C17: every Expand or Collapse that takes effect (the visible sequence
\* changes) leaves the cursor on the node it was on, which indexOf finds
\* in the new visible sequence: its fallback to index 0 for a node that is
\* not found is never taken.
C17_CursorFollowsNode ==
  [][(Looping /\ m'.vis # m.vis) =>
       /\ nodeAtCursor(m) \in Range(m'.vis)
       /\ m'.cursor = indexOf(m'.vis, nodeAtCursor(m))
       /\ nodeAtCursor(m') = nodeAtCursor(m)]_vars

\* The cursor is below the root on a directory that a Collapse has folded.
C17_Witness ==
  /\ pc = "run" /\ m.cursor > 0
  /\ IsDirNode(nodeAtCursor(m)) /\ ~m.nodes[nodeAtCursor(m)].expanded
  /\ Kids(nodeAtCursor(m)) # <<>>

\* C18: a key event whose guard is false leaves the whole session state
\* unchanged: Expand on a file, on an expanded directory or on a directory
\* with no children; Collapse on a file, on a collapsed directory or on a
\* directory with no children; Toggle on a directory; Up at index 0; Down
\* at the last visible index; a key with no binding.
C18_FalseGuardNoChange ==
  Looping =>
    \A n \in {nodeAtCursor(m)} :
      /\ (~IsDirNode(n) \/ m.nodes[n].expanded \/ Kids(n) = <<>>)
           => updateRight(m) = m
      /\ (~IsDirNode(n) \/ ~m.nodes[n].expanded \/ Kids(n) = <<>>)
           => updateLeft(m) = m
      /\ IsDirNode(n) => updateToggle(m) = m
      /\ m.cursor = 0 => updateUp(m) = m
      /\ m.cursor = Len(m.vis) - 1 => updateDown(m) = m
      /\ updateOther(m) = m

\* The cursor is on a file at the end of a list that has been scrolled.
C18_Witness ==
  /\ pc = "run" /\ m.cursor = Len(m.vis) - 1 /\ m.offset > 0
  /\ ~IsDirNode(nodeAtCursor(m))

\* C19: every directory of the tree buildTree returns, the root included,
\* starts expanded exactly when it has at most 32 immediate children; with
\* a root of more than 32 children the initial visible sequence is the
\* root alone.
C19_InitialExpansion ==
  pc = "run" =>
    /\ \A d \in Dirs : m.nodes[d].expanded <=> Len(Kids(d)) <= 32
    /\ Len(Kids(RootId)) > 32 => m.vis = <<RootId>>

\* A root with 33 files.
C19_Witness ==
  pc = "run" /\ Len(Kids(RootId)) = 33 /\ Len(m.vis) = 1

\* C20: in every reachable session state m.vis is flattenVisible of the
\* tree with its current expansion flags, so it is never stale after an
\* Expand or a Collapse; Toggle, Up, Down and Resize leave it unchanged.
C20_VisIsFlatten ==
  Started =>
    /\ m.vis = flattenVisible(m.nodes)
    /\ updateToggle(m).vis = m.vis
    /\ updateUp(m).vis = m.vis
    /\ updateDown(m).vis = m.vis
    /\ \A h \in Heights, wd \in Widths : updateWindowSize(m, wd, h).vis = m.vis

\* A directory below an expanded root has been collapsed and a file is
\* selected.
C20_Witness ==
  /\ pc = "run" /\ m.selectedCount > 0
  /\ \E d \in Dirs : ~m.nodes[d].expanded /\ Kids(d) # <<>>
  /\ Len(m.vis) > 2 /\ Len(m.vis) < Len(m.nodes)

\* C21: in every reachable session state the visible sequence is not empty
\* and 0 <= cursor < len(vis), so the lookup vis[cursor] of the Expand,
\* Collapse and Toggle handlers is in range, also before any Resize and
\* after a Collapse that shortens the visible sequence.
C21_CursorInRange ==
  Started => m.vis # <<>> /\ 0 <= m.cursor /\ m.cursor < Len(m.vis)

\* No Resize has arrived and a Collapse below the root has shortened the
\* visible sequence under the cursor.
C21_Witness ==
  /\ pc = "run" /\ m.height = 0 /\ m.cursor > 0
  /\ IsDirNode(nodeAtCursor(m)) /\ ~m.nodes[nodeAtCursor(m)].expanded
  /\ Kids(nodeAtCursor(m)) # <<>>
  /\ Len(m.vis) < Len(flattenVisible([i \in DOMAIN m.nodes |->
                        [m.nodes[i] EXCEPT !.expanded = TRUE]]))

====
